---- MODULE Spec2Model ----
(***************************************************************************)
(* ESP8266 access control firmware (ESP8266_Access_Control.ino): the       *)
(* EEPROM card store, the master-card registration mode, the scan loop     *)
(* and the web command handlers.                                           *)
(***************************************************************************)
EXTENDS Integers, Sequences, FiniteSets, TLC

\* ---------------------------------------------------------------- settings
RELAY_ON_TIME_MS == 5000
REG_MODE_TIMEOUT_MS == 15000
MAX_CARDS == 50
EEPROM_SIZE == 512

AUDIO_BEEP_FAIL == 1
AUDIO_CUSTOMER == 2
AUDIO_ADMIN_1 == 3
AUDIO_ADMIN_2 == 4
AUDIO_ADMIN_3 == 5
AUDIO_ADMIN_4 == 6
AUDIO_ADMIN_5 == 7
AUDIO_ADMIN_6 == 8
AUDIO_BEEP_OK == 9
AUDIO_BOSS == 10
AUDIO_ATTENDANCE == 11
AUDIO_FAILURE == 12
AUDIO_ADMIN_1_CLOCKIN == 13
AUDIO_ADMIN_2_CLOCKIN == 14
AUDIO_ADMIN_3_CLOCKIN == 15
AUDIO_ADMIN_4_CLOCKIN == 16
AUDIO_MASTER == 17
AUDIO_REGISTER == 18
AUDIO_ADMIN_1_CLOCKOUT == 19
AUDIO_ADMIN_2_CLOCKOUT == 20
AUDIO_ADMIN_3_CLOCKOUT == 21
AUDIO_ADMIN_4_CLOCKOUT == 22

\* delay(100) at the end of sendDFCommand
DF_COMMAND_DELAY_MS == 100
\* delay(500) after the first card became master
MASTER_SET_DELAY_MS == 500
\* delay(100) in setup plus delay(1000), sendDFCommand and delay(100) of
\* initDFPlayer; the WiFi wait loop may run zero times
SETUP_MS == 100 + 1000 + DF_COMMAND_DELAY_MS + 100

\* byte is 8 bits wide
BYTE_MOD == 256

\* ------------------------------------------------------------------ bounds
\* the number of passes of loop() that find a client or a card, or idle on
MaxPasses == 4
\* the number of cards registered by an earlier run that the reader presents
ScannableFillers == 1
\* the number of direct store operations of one run of SpecStore
MaxStoreOps == 4

\* ------------------------------------------------------------- identifiers
UID_FF == <<255, 255, 255, 255>>
UID_00 == <<0, 0, 0, 0>>
\* AA:BB:CC:DD and 11:22:33:44
CardA == <<170, 187, 204, 221>>
CardB == <<17, 34, 51, 68>>
\* the master of a store that was filled beforehand
CardM == <<222, 173, 190, 239>>
\* a card whose bytes mix 0x00 and 0xFF
CardMixed == <<0, 255, 0, 255>>
\* the k-th card of a store that was filled beforehand
Filler(k) == <<1, 0, 0, k>>

\* what the reader can present: never all-0x00, never all-0xFF
Cards == {CardA, CardB, CardM, CardMixed} \cup {Filler(k) : k \in 1..ScannableFillers}

\* ------------------------------------------------------------ EEPROM bytes
\* the EEPROM buffer is the tuple of its EEPROM_SIZE bytes: the byte at
\* address a is element a + 1
Addr == 0..(EEPROM_SIZE - 1)

EEPROM_read(e, a) == e[a + 1]

EEPROM_write(e, a, v) == [e EXCEPT ![a + 1] = v % BYTE_MOD]

\* for (b = 0; b < 4; b++) out[b] = EEPROM.read(addr + b)
ReadUID(e, addr) ==
    <<EEPROM_read(e, addr), EEPROM_read(e, addr + 1), EEPROM_read(e, addr + 2),
      EEPROM_read(e, addr + 3)>>

\* for (b = 0; b < 4; b++) EEPROM.write(addr + b, u[b])
WriteUID(e, addr, u) ==
    EEPROM_write(
        EEPROM_write(
            EEPROM_write(EEPROM_write(e, addr, u[1]), addr + 1, u[2]),
            addr + 2, u[3]),
        addr + 3, u[4])

compareUID(a, b) == \A i \in 1..4 : a[i] = b[i]

isUIDEmpty(u) == \A i \in 1..4 : ~(u[i] # 255 /\ u[i] # 0)

readMasterUID(e) == ReadUID(e, 0)

readCount(e) == EEPROM_read(e, 4)

cardAddr(index) == 5 + index * 4

isAuthorized(e, uid) ==
    \E i \in 0..(readCount(e) - 1) : compareUID(uid, ReadUID(e, cardAddr(i)))

\* the identifiers held by the first count slots
Members(e) == {ReadUID(e, cardAddr(i)) : i \in 0..(readCount(e) - 1)}

\* the first count slots, in order
Entries(e) == [i \in 1..readCount(e) |-> ReadUID(e, cardAddr(i - 1))]

\* ------------------------------------------------- effects of one handler
\* e: the bytes of the EEPROM object (its buffer in RAM, which read and write
\* work on), flash: the bytes of the flash sector (what the last commit
\* stored, and what EEPROM.begin loads), audio: file numbers sent to the
\* DFPlayer, log: the outcome lines printed on Serial, relay: relay pulses,
\* ms: time spent in delay(), commits: what each commit of this handler
\* stored in flash, in order, pins: the levels this handler wrote to
\* RELAY_PIN (on: the relay is energized), in order, each with the time
\* spent in delay() before it
Eff(e, f) ==
    [e |-> e, flash |-> f, audio |-> <<>>, log |-> <<>>, relay |-> 0, ms |-> 0,
     commits |-> <<>>, pins |-> <<>>]

\* EEPROM.commit(): the buffer is stored in the flash sector
EEPROM_commit(x) == [x EXCEPT !.flash = x.e, !.commits = Append(@, x.e)]

writeMasterUIDNoCommit(x, in) == [x EXCEPT !.e = WriteUID(@, 0, in)]

writeMasterUID(x, in) == EEPROM_commit([x EXCEPT !.e = WriteUID(@, 0, in)])

writeCount(x, c) == EEPROM_commit([x EXCEPT !.e = EEPROM_write(@, 4, c)])

playAudio(x, fileNumber) ==
    [x EXCEPT !.audio = Append(@, fileNumber), !.ms = @ + DF_COMMAND_DELAY_MS]

println(x, line) == [x EXCEPT !.log = Append(@, line)]

activateRelayStaysOn(x) ==
    [x EXCEPT !.relay = @ + 1,
              !.pins = Append(@, [on |-> TRUE, ms |-> x.ms]),
              !.ms = @ + RELAY_ON_TIME_MS]

activateRelay(x) ==
    [x EXCEPT !.relay = @ + 1,
              !.pins = @ \o <<[on |-> TRUE, ms |-> x.ms],
                              [on |-> FALSE, ms |-> x.ms + RELAY_ON_TIME_MS]>>,
              !.ms = @ + RELAY_ON_TIME_MS]

addCardNoLimit(x, uid) ==
    LET cnt == readCount(x.e)
        written == writeCount([x EXCEPT !.e = WriteUID(@, cardAddr(cnt), uid)],
                              cnt + 1)
    IN  playAudio(println(EEPROM_commit(written), "Card ADDED: "), AUDIO_REGISTER)

addCardCountFirst(x, uid) ==
    LET cnt == readCount(x.e)
    IN  IF cnt >= MAX_CARDS
        THEN x
        ELSE LET counted == writeCount(x, cnt + 1)
                 written == [counted EXCEPT !.e = WriteUID(@, cardAddr(cnt), uid)]
             IN  playAudio(println(EEPROM_commit(written), "Card ADDED: "),
                           AUDIO_REGISTER)

addCard(x, uid) ==
    LET cnt == readCount(x.e)
    IN  IF cnt >= MAX_CARDS
        THEN x
        ELSE LET written ==
                     writeCount([x EXCEPT !.e = WriteUID(@, cardAddr(cnt), uid)],
                                cnt + 1)
             IN  playAudio(println(EEPROM_commit(written), "Card ADDED: "),
                           AUDIO_REGISTER)

\* the shifting loop of removeCardAtIndex: for i = idx .. cnt - 2 the four
\* bytes of slot i + 1 are copied over slot i. Slot i + 1 is read before the
\* loop writes it, so every byte of the slots idx .. cnt - 2 ends as the byte
\* four addresses up was before the loop.
ShiftDown(e, idx, cnt) ==
    [i \in 1..EEPROM_SIZE |->
        IF cardAddr(idx) <= i - 1 /\ i - 1 < cardAddr(cnt - 1)
        THEN EEPROM_read(e, i - 1 + 4)
        ELSE EEPROM_read(e, i - 1)]

removeCardAtIndexNoShift(x, idx) ==
    LET cnt == readCount(x.e)
    IN  IF idx >= cnt
        THEN x
        ELSE EEPROM_commit(
                 writeCount([x EXCEPT !.e = WriteUID(@, cardAddr(cnt - 1), UID_FF)],
                            cnt - 1))

removeCardAtIndexNoClear(x, idx) ==
    LET cnt == readCount(x.e)
    IN  IF idx >= cnt
        THEN x
        ELSE EEPROM_commit(
                 writeCount([x EXCEPT !.e = ShiftDown(@, idx, cnt)], cnt - 1))

removeCardAtIndex(x, idx) ==
    LET cnt == readCount(x.e)
    IN  IF idx >= cnt
        THEN x
        ELSE EEPROM_commit(
                 writeCount(
                     [x EXCEPT !.e = WriteUID(ShiftDown(@, idx, cnt),
                                              cardAddr(cnt - 1), UID_FF)],
                     cnt - 1))

\* the first slot that holds uid (toggleAuthorizedCard scans upwards)
FirstIndex(e, uid) ==
    CHOOSE i \in 0..(readCount(e) - 1) :
        /\ compareUID(uid, ReadUID(e, cardAddr(i)))
        /\ \A j \in 0..(i - 1) : ~compareUID(uid, ReadUID(e, cardAddr(j)))

toggleAuthorizedCardAlwaysAdd(x, uid) == addCard(x, uid)

toggleAuthorizedCardOpens(x, uid) ==
    IF isAuthorized(x.e, uid)
    THEN activateRelay(playAudio(println(x, "Authorized -> opening gate"),
                                 AUDIO_BEEP_OK))
    ELSE addCard(x, uid)

toggleAuthorizedCard(x, uid) ==
    IF isAuthorized(x.e, uid)
    THEN playAudio(println(removeCardAtIndex(x, FirstIndex(x.e, uid)),
                           "Card REMOVED: "),
                   AUDIO_BEEP_FAIL)
    ELSE addCard(x, uid)

\* ------------------------------------------------------------------- state
VARIABLES
    eeprom,          \* the bytes of the EEPROM object (its buffer in RAM)
    flash,           \* the bytes of the flash sector behind it
    regMode,         \* bool regMode
    regModeStarted,  \* unsigned long regModeStarted
    now,             \* millis()
    audio,           \* file numbers played by the last handler
    log,             \* outcome lines printed on Serial by the last handler
    relay,           \* relay pulses of the last handler
    http,            \* status code sent by the last handler, 0 when none
    last,            \* the last step: its kind and its input
    hist,            \* the last two scans if toggleAuthorizedCard handled
                     \* both, else the last one if it handled that, else
                     \* none: the card and the members before the scan
    added,           \* SpecStore: the identifiers added and not since removed
    pin,             \* RELAY_PIN drives the relay: the relay is energized
    busy,            \* <<>> while loop() polls, else the handler that holds
                     \* the relay
    steps            \* the number of steps taken so far

vars == <<eeprom, flash, regMode, regModeStarted, now, audio, log, relay, http, last,
          hist, added, pin, busy, steps>>

\* the level of RELAY_PIN when a handler with effects x returns
PinAfter(x) == IF x.pins = <<>> THEN pin ELSE x.pins[Len(x.pins)].on

\* ------------------------------------------------------------------- setup
\* the EEPROM as initEEPROM leaves a blank (all 0xFF) chip
WipedEEPROM == [i \in 1..EEPROM_SIZE |-> IF i - 1 = 4 THEN 0 ELSE 255]

\* an EEPROM written by an earlier run: master CardM and n registered cards
FilledEEPROM(n) ==
    [i \in 1..EEPROM_SIZE |->
        LET a == i - 1
        IN  IF a < 4 THEN CardM[a + 1]
            ELSE IF a = 4 THEN n
            ELSE IF a < cardAddr(n)
                 THEN Filler(((a - 5) \div 4) + 1)[((a - 5) % 4) + 1]
            ELSE 255]

initEEPROMWipeAtMax(f) ==
    LET x == Eff(f, f)
    IN  IF readCount(x.e) >= MAX_CARDS
        THEN println(EEPROM_commit([x EXCEPT !.e = WipedEEPROM]),
                     "EEPROM initialized")
        ELSE x

\* EEPROM.begin loads the flash sector f into the buffer
initEEPROM(f) ==
    LET x == Eff(f, f)
    IN  IF readCount(x.e) > MAX_CARDS
        THEN println(EEPROM_commit([x EXCEPT !.e = WipedEEPROM]),
                     "EEPROM initialized")
        ELSE x

\* what the chip can hold when the device is switched on
BootEEPROMs ==
    {[i \in 1..EEPROM_SIZE |-> 255], WipedEEPROM, FilledEEPROM(MAX_CARDS - 1)}

Init ==
    /\ \E f \in BootEEPROMs :
          /\ eeprom = initEEPROM(f).e
          /\ flash = initEEPROM(f).flash
          /\ log = initEEPROM(f).log
    /\ regMode = FALSE
    /\ regModeStarted = 0
    /\ now = SETUP_MS
    /\ audio = <<>>
    /\ relay = 0
    /\ http = 0
    /\ last = [kind |-> "boot"]
    /\ hist = <<>>
    /\ added = {}
    /\ pin = FALSE
    /\ busy = <<>>
    /\ steps = 0

\* -------------------------------------------------------------------- loop
\* the paths that setup() routes to handleRoot and to handleReboot
RootPath == ""
RebootPath == "reboot"

\* the device has stopped: the power failed or /reboot was served
Stopped == last.kind = "off" \/ (last.kind = "web" /\ last.name = RebootPath)

\* setup() has run and loop() is running
Running == last.kind # "cold" /\ ~Stopped

\* millis() after ms milliseconds of delay(). millis() is an unsigned long
\* of 32 bits that wraps after 49.7 days; the runs here end at a few
\* minutes, long before, so the sum and the unsigned difference of the timeout
\* check are the plain ones.
Millis(ms) == now + ms

\* unsigned a - b for a >= b
USub(a, b) == a - b

\* which branch of loop() handles the card
ScanBranchRegFirst(master, uid, reg) ==
    IF isUIDEmpty(master) THEN "become"
    ELSE IF reg THEN "toggle"
    ELSE IF compareUID(uid, master) THEN "master"
    ELSE "access"

ScanBranchToggleIdle(master, uid, reg) ==
    IF isUIDEmpty(master) THEN "become"
    ELSE IF compareUID(uid, master) THEN "master"
    ELSE "toggle"

ScanBranch(master, uid, reg) ==
    IF isUIDEmpty(master) THEN "become"
    ELSE IF compareUID(uid, master) THEN "master"
    ELSE IF reg THEN "toggle"
    ELSE "access"

\* the state a handler leaves: its effects and the registration globals
Ret(x, reg, started) == [x |-> x, regMode |-> reg, regModeStarted |-> started]

handleMasterScan(x) ==
    IF ~regMode
    THEN Ret(playAudio(println(x, "MASTER -> Registration mode ON"), AUDIO_MASTER),
             TRUE, Millis(x.ms))
    ELSE Ret(playAudio(println(x, "MASTER -> Registration mode CANCELLED"),
                       AUDIO_BEEP_OK),
             FALSE, regModeStarted)

TimeoutCheckNone(x) == Ret(x, regMode, regModeStarted)

TimeoutCheckRestarts(x) ==
    IF regMode THEN Ret(x, TRUE, Millis(x.ms)) ELSE Ret(x, regMode, regModeStarted)

\* the timeout check that ends loop()
TimeoutCheck(x) ==
    IF regMode /\ USub(Millis(x.ms), regModeStarted) > REG_MODE_TIMEOUT_MS
    THEN Ret(x, FALSE, regModeStarted)
    ELSE Ret(x, regMode, regModeStarted)

\* loop() once a card with this uid was read
loopCard(uid) ==
    LET master == readMasterUID(eeprom)
        branch == ScanBranch(master, uid, regMode)
        x0 == Eff(eeprom, flash)
    IN  CASE branch = "become" ->
               LET x1 == playAudio(
                             writeMasterUID(
                                 println(x0, "No master set. This card becomes MASTER."),
                                 uid),
                             AUDIO_MASTER)
               IN  Ret([x1 EXCEPT !.ms = @ + MASTER_SET_DELAY_MS], regMode,
                       regModeStarted)
          [] branch = "master" -> handleMasterScan(x0)
          [] branch = "toggle" -> TimeoutCheck(toggleAuthorizedCard(x0, uid))
          [] branch = "access" ->
               IF isAuthorized(eeprom, uid)
               THEN TimeoutCheck(activateRelay(
                        playAudio(println(x0, "Authorized -> opening gate"),
                                  AUDIO_BEEP_OK)))
               ELSE TimeoutCheck(playAudio(println(x0, "Unauthorized card"),
                                           AUDIO_BEEP_FAIL))

Toggles(uid) == ScanBranch(readMasterUID(eeprom), uid, regMode) = "toggle"

\* one pass of loop() in which the reader presents uid
Scan(uid) ==
    /\ Running
    /\ steps < MaxPasses
    /\ steps' = steps + 1
    /\ LET r == loopCard(uid)
       IN  /\ eeprom' = r.x.e
           /\ flash' = r.x.flash
           /\ regMode' = r.regMode
           /\ regModeStarted' = r.regModeStarted
           /\ now' = Millis(r.x.ms)
           /\ audio' = r.x.audio
           /\ log' = r.x.log
           /\ relay' = r.x.relay
           /\ pin' = PinAfter(r.x)
    /\ http' = 0
    /\ last' = [kind |-> "scan", uid |-> uid]
    /\ hist' = IF Toggles(uid)
               THEN LET h == [uid |-> uid, before |-> Members(eeprom)]
                    IN  IF Len(hist) = 2 THEN <<hist[2], h>> ELSE Append(hist, h)
               ELSE <<>>
    /\ UNCHANGED <<added, busy>>

\* ------------------------------------------------------------ web handlers
\* server.on(...) in setup: the audio file and the relay flag of each route
Routes ==
    [customer |-> <<AUDIO_CUSTOMER, FALSE>>,
     admin1 |-> <<AUDIO_ADMIN_1, TRUE>>,
     admin2 |-> <<AUDIO_ADMIN_2, TRUE>>,
     admin3 |-> <<AUDIO_ADMIN_3, TRUE>>,
     admin4 |-> <<AUDIO_ADMIN_4, TRUE>>,
     admin5 |-> <<AUDIO_ADMIN_5, TRUE>>,
     admin6 |-> <<AUDIO_ADMIN_6, TRUE>>,
     boss |-> <<AUDIO_BOSS, TRUE>>,
     attendance |-> <<AUDIO_ATTENDANCE, FALSE>>,
     admin1_clockin |-> <<AUDIO_ADMIN_1_CLOCKIN, FALSE>>,
     admin2_clockin |-> <<AUDIO_ADMIN_2_CLOCKIN, FALSE>>,
     admin3_clockin |-> <<AUDIO_ADMIN_3_CLOCKIN, FALSE>>,
     admin4_clockin |-> <<AUDIO_ADMIN_4_CLOCKIN, FALSE>>,
     admin1_clockout |-> <<AUDIO_ADMIN_1_CLOCKOUT, FALSE>>,
     admin2_clockout |-> <<AUDIO_ADMIN_2_CLOCKOUT, FALSE>>,
     admin3_clockout |-> <<AUDIO_ADMIN_3_CLOCKOUT, FALSE>>,
     admin4_clockout |-> <<AUDIO_ADMIN_4_CLOCKOUT, FALSE>>,
     admin1_relay |-> <<0, TRUE>>,
     admin2_relay |-> <<0, TRUE>>,
     admin3_relay |-> <<0, TRUE>>,
     admin4_relay |-> <<0, TRUE>>,
     admin5_relay |-> <<0, TRUE>>,
     admin6_relay |-> <<0, TRUE>>,
     boss_relay |-> <<0, TRUE>>,
     failure |-> <<AUDIO_FAILURE, FALSE>>,
     beep_ok |-> <<AUDIO_BEEP_OK, FALSE>>,
     beep_fail |-> <<AUDIO_BEEP_FAIL, FALSE>>,
     master |-> <<AUDIO_MASTER, FALSE>>,
     register |-> <<AUDIO_REGISTER, FALSE>>]

\* the request paths tried: a route with a relay pulse, the audio-only routes
\* named after the master card and after registration, an unknown path
WebInputs == {"admin1", "master", "register", "zzz"}

handleCommandAlwaysRelay(x, audioID, triggerRelay) ==
    activateRelay(playAudio(x, audioID))

handleCommand(x, audioID, triggerRelay) ==
    LET x1 == playAudio(x, audioID)
    IN  IF triggerRelay THEN activateRelay(x1) ELSE x1

\* one pass of loop() in which server.handleClient() serves a known route
\* and no card is present
WebCommand(name) ==
    /\ Running
    /\ steps < MaxPasses
    /\ steps' = steps + 1
    /\ name \in DOMAIN Routes
    /\ LET x == handleCommand(Eff(eeprom, flash), Routes[name][1], Routes[name][2])
       IN  /\ now' = Millis(x.ms)
           /\ audio' = x.audio
           /\ log' = x.log
           /\ relay' = x.relay
           /\ pin' = PinAfter(x)
    /\ http' = 200
    /\ last' = [kind |-> "web", name |-> name]
    /\ UNCHANGED <<eeprom, flash, regMode, regModeStarted, hist, added, busy>>

\* the same for a path no route matches: handleNotFound
WebNotFound(name) ==
    /\ Running
    /\ steps < MaxPasses
    /\ steps' = steps + 1
    /\ name \notin DOMAIN Routes \cup {RootPath, RebootPath}
    /\ audio' = <<>>
    /\ log' = <<>>
    /\ relay' = 0
    /\ http' = 404
    /\ last' = [kind |-> "web", name |-> name]
    /\ UNCHANGED <<eeprom, flash, regMode, regModeStarted, now, hist, added, pin,
                   busy>>

\* the time that passes over passes of loop() with no client and no card
IdleSteps == {5000, REG_MODE_TIMEOUT_MS + 1}

LoopIdleTimesOut(d) ==
    /\ Running
    /\ busy = <<>>
    /\ steps < MaxPasses
    /\ steps' = steps + 1
    /\ now' = Millis(d)
    /\ regMode' = (regMode /\ ~(USub(Millis(d), regModeStarted) > REG_MODE_TIMEOUT_MS))
    /\ audio' = <<>>
    /\ log' = <<>>
    /\ relay' = 0
    /\ http' = 0
    /\ last' = [kind |-> "idle"]
    /\ UNCHANGED <<eeprom, flash, regModeStarted, hist, added, pin, busy>>

LoopIdle(d) ==
    /\ Running
    /\ busy = <<>>
    /\ steps < MaxPasses
    /\ steps' = steps + 1
    /\ now' = Millis(d)
    /\ audio' = <<>>
    /\ log' = <<>>
    /\ relay' = 0
    /\ http' = 0
    /\ last' = [kind |-> "idle"]
    /\ UNCHANGED <<eeprom, flash, regMode, regModeStarted, hist, added, pin, busy>>

Next ==
    \/ \E uid \in Cards : Scan(uid)
    \/ \E name \in WebInputs : WebCommand(name)
    \/ \E name \in WebInputs : WebNotFound(name)
    \/ \E d \in IdleSteps : LoopIdle(d)

Spec == Init /\ [][Next]_vars

\* ------------------------------------------------ power, reboot and setup
\* what the flash sector can hold when the device is first switched on: the
\* above, a list of exactly MAX_CARDS cards, and a count byte above MAX_CARDS
\* over a master and card slots that hold identifiers
ChipContents ==
    BootEEPROMs \cup {FilledEEPROM(MAX_CARDS), FilledEEPROM(MAX_CARDS + 1)}

\* the device before it is first switched on
InitBoot ==
    /\ flash \in ChipContents
    /\ eeprom = flash
    /\ regMode = FALSE
    /\ regModeStarted = 0
    /\ now = 0
    /\ audio = <<>>
    /\ log = <<>>
    /\ relay = 0
    /\ http = 0
    /\ last = [kind |-> "cold"]
    /\ hist = <<>>
    /\ added = {}
    /\ pin = FALSE
    /\ busy = <<>>
    /\ steps = 0

\* what the store held when the last handler returned, and the lines that
\* handler printed
StoreSeen ==
    [master |-> readMasterUID(eeprom), entries |-> Entries(eeprom), after |-> log]

\* the power fails between two passes of loop(): the globals and the EEPROM
\* buffer are lost, the flash sector stays
PowerLoss ==
    /\ Running
    /\ steps < MaxPasses
    /\ steps' = steps + 1
    /\ eeprom' = flash
    /\ regMode' = FALSE
    /\ regModeStarted' = 0
    /\ now' = 0
    /\ audio' = <<>>
    /\ log' = <<>>
    /\ relay' = 0
    /\ http' = 0
    /\ last' = [kind |-> "off", seen |-> StoreSeen]
    /\ hist' = <<>>
    /\ pin' = FALSE
    /\ UNCHANGED <<flash, added, busy>>

\* one pass of loop() in which server.handleClient() serves /reboot:
\* handleReboot answers and ESP.restart() stops the device the same way
WebReboot ==
    /\ Running
    /\ steps < MaxPasses
    /\ steps' = steps + 1
    /\ eeprom' = flash
    /\ regMode' = FALSE
    /\ regModeStarted' = 0
    /\ now' = 0
    /\ audio' = <<>>
    /\ log' = <<>>
    /\ relay' = 0
    /\ http' = 200
    /\ last' = [kind |-> "web", name |-> RebootPath, seen |-> StoreSeen]
    /\ hist' = <<>>
    /\ pin' = FALSE
    /\ UNCHANGED <<flash, added, busy>>

\* one pass of loop() in which server.handleClient() serves /: handleRoot
\* sends the dashboard page
WebRoot ==
    /\ Running
    /\ steps < MaxPasses
    /\ steps' = steps + 1
    /\ audio' = <<>>
    /\ log' = <<>>
    /\ relay' = 0
    /\ http' = 200
    /\ last' = [kind |-> "web", name |-> RootPath]
    /\ UNCHANGED <<eeprom, flash, regMode, regModeStarted, now, hist, added, pin,
                   busy>>

\* setup(), on first power or after a stop
Setup ==
    /\ ~Running
    /\ LET x == initEEPROM(flash)
       IN  /\ eeprom' = x.e
           /\ flash' = x.flash
           /\ log' = x.log
    /\ regMode' = FALSE
    /\ regModeStarted' = 0
    /\ now' = SETUP_MS
    /\ audio' = <<>>
    /\ relay' = 0
    /\ http' = 0
    /\ last' = [kind |-> "boot", before |-> last]
    /\ pin' = FALSE
    /\ UNCHANGED <<hist, added, busy, steps>>

NextBoot ==
    \/ Setup
    \/ PowerLoss
    \/ WebReboot
    \/ WebRoot
    \/ \E uid \in Cards : Scan(uid)
    \/ \E name \in WebInputs : WebCommand(name)
    \/ \E name \in WebInputs : WebNotFound(name)
    \/ \E d \in IdleSteps : LoopIdle(d)

SpecBoot == InitBoot /\ [][NextBoot]_vars

\* ------------------------------------------------ the web server by itself
\* the request paths tried: every route of setup(), and paths that no route
\* matches
WebNames ==
    DOMAIN Routes \cup {RootPath, RebootPath, "zzz", "admin7", "admin5_clockin",
                        "Admin1"}

NextWeb ==
    \/ Setup
    \/ WebReboot
    \/ WebRoot
    \/ \E name \in WebNames : WebCommand(name)
    \/ \E name \in WebNames : WebNotFound(name)

SpecWeb == Init /\ [][NextWeb]_vars

\* ------------------------------------------------- the card store directly
\* the cards and the slots that the store operations are tried with
StoreIds == {CardA, CardB, CardM}
StoreIdx == 0..MaxStoreOps

InitStore ==
    /\ eeprom = WipedEEPROM
    /\ flash = WipedEEPROM
    /\ added = {}
    /\ pin = FALSE
    /\ busy = <<>>
    /\ regMode = FALSE
    /\ regModeStarted = 0
    /\ now = SETUP_MS
    /\ audio = <<>>
    /\ log = <<>>
    /\ relay = 0
    /\ http = 0
    /\ last = [kind |-> "boot"]
    /\ hist = <<>>
    /\ steps = 0

\* addCard(uid) on a store that is not full
StoreAdd(uid) ==
    /\ steps < MaxStoreOps
    /\ readCount(eeprom) < MAX_CARDS
    /\ steps' = steps + 1
    /\ LET x == addCard(Eff(eeprom, flash), uid)
       IN  /\ eeprom' = x.e
           /\ flash' = x.flash
           /\ now' = Millis(x.ms)
           /\ audio' = x.audio
           /\ log' = x.log
           /\ relay' = x.relay
    /\ added' = added \cup {uid}
    /\ last' = [kind |-> "add", uid |-> uid]
    /\ UNCHANGED <<regMode, regModeStarted, http, hist, pin, busy>>

\* removeCardAtIndex(idx)
StoreRemoveAt(idx) ==
    /\ steps < MaxStoreOps
    /\ steps' = steps + 1
    /\ LET x == removeCardAtIndex(Eff(eeprom, flash), idx)
       IN  /\ eeprom' = x.e
           /\ flash' = x.flash
    /\ added' = IF idx < readCount(eeprom)
                THEN added \ {ReadUID(eeprom, cardAddr(idx))}
                ELSE added
    /\ audio' = <<>>
    /\ log' = <<>>
    /\ relay' = 0
    /\ last' = [kind |-> "removeAt", idx |-> idx]
    /\ UNCHANGED <<regMode, regModeStarted, now, http, hist, pin, busy>>

\* writeMasterUID(uid)
StoreWriteMaster(uid) ==
    /\ steps < MaxStoreOps
    /\ steps' = steps + 1
    /\ LET x == writeMasterUID(Eff(eeprom, flash), uid)
       IN  /\ eeprom' = x.e
           /\ flash' = x.flash
    /\ audio' = <<>>
    /\ log' = <<>>
    /\ relay' = 0
    /\ last' = [kind |-> "writeMaster", uid |-> uid]
    /\ UNCHANGED <<regMode, regModeStarted, now, http, hist, added, pin, busy>>

NextStore ==
    \/ \E uid \in StoreIds : StoreAdd(uid)
    \/ \E idx \in StoreIdx : StoreRemoveAt(idx)
    \/ \E uid \in StoreIds : StoreWriteMaster(uid)

SpecStore == InitStore /\ [][NextStore]_vars

\* ------------------------------------- power loss inside a store operation
\* master, count and entries of a store
StoreOf(e) == <<readMasterUID(e), readCount(e), Entries(e)>>

\* the flash sector when the power fails inside a handler with effects x,
\* after k of its commits: EEPROM.write changes the buffer only, so flash
\* holds what the last commit stored
FlashAt(x, k) == IF k = 0 THEN flash ELSE x.commits[k]

\* the power fails inside an operation with effects x after k of its
\* commits, and setup() runs on what flash holds
LostAndSetup(x, k, op) ==
    /\ k \in 0..Len(x.commits)
    /\ LET y == initEEPROM(FlashAt(x, k))
       IN  /\ eeprom' = y.e
           /\ flash' = y.flash
           /\ log' = y.log
    /\ regMode' = FALSE
    /\ regModeStarted' = 0
    /\ now' = SETUP_MS
    /\ audio' = <<>>
    /\ relay' = 0
    /\ http' = 0
    /\ last' = [kind |-> op, at |-> k, pre |-> StoreOf(flash), post |-> StoreOf(x.e)]
    /\ hist' = <<>>
    /\ pin' = FALSE
    /\ busy' = <<>>

\* addCard(uid) on a store that is not full, cut short by a power loss
StoreAddLost(uid) ==
    /\ steps < MaxStoreOps
    /\ readCount(eeprom) < MAX_CARDS
    /\ steps' = steps + 1
    /\ LET x == addCard(Eff(eeprom, flash), uid)
       IN  /\ \E k \in 0..2 : LostAndSetup(x, k, "addLost")
           /\ added' = IF StoreOf(eeprom') = StoreOf(x.e)
                        THEN added \cup {uid}
                        ELSE added

\* removeCardAtIndex(idx), cut short by a power loss
StoreRemoveAtLost(idx) ==
    /\ steps < MaxStoreOps
    /\ idx < readCount(eeprom)
    /\ steps' = steps + 1
    /\ LET x == removeCardAtIndex(Eff(eeprom, flash), idx)
       IN  /\ \E k \in 0..2 : LostAndSetup(x, k, "removeAtLost")
           /\ added' = IF StoreOf(eeprom') = StoreOf(x.e)
                        THEN added \ {ReadUID(eeprom, cardAddr(idx))}
                        ELSE added

NextPower ==
    \/ \E uid \in StoreIds : StoreAdd(uid)
    \/ \E idx \in StoreIdx : StoreRemoveAt(idx)
    \/ \E uid \in StoreIds : StoreAddLost(uid)
    \/ \E idx \in StoreIdx : StoreRemoveAtLost(idx)

SpecPower == InitStore /\ [][NextPower]_vars

\* ------------------------------------------- the relay pulse step by step
\* a handler that loop() has called and that returns r (its effects and the
\* registration globals), with what the pass records when it ends; i of its
\* writes to RELAY_PIN are done
Pending(r, l, status, h) ==
    [r |-> r, last |-> l, http |-> status, hist |-> h, start |-> now, i |-> 0]

\* the handler returns
Finish(b) ==
    /\ eeprom' = b.r.x.e
    /\ flash' = b.r.x.flash
    /\ regMode' = b.r.regMode
    /\ regModeStarted' = b.r.regModeStarted
    /\ now' = b.start + b.r.x.ms
    /\ audio' = b.r.x.audio
    /\ log' = b.r.x.log
    /\ relay' = b.r.x.relay
    /\ http' = b.http
    /\ last' = b.last
    /\ hist' = b.hist
    /\ busy' = <<>>

\* the handler runs up to its next write to RELAY_PIN; after the last write
\* it runs to its end. Between two writes it sits in delay(), and loop()
\* with it: the Serial lines and cues are recorded when it returns.
Advance(b) ==
    IF b.r.x.pins = <<>>
    THEN pin' = pin /\ Finish(b)
    ELSE LET i == b.i + 1
         IN  /\ pin' = b.r.x.pins[i].on
             /\ IF i = Len(b.r.x.pins)
                THEN Finish(b)
                ELSE /\ now' = b.start + b.r.x.pins[i].ms
                     /\ busy' = [b EXCEPT !.i = i]
                     /\ UNCHANGED <<eeprom, flash, regMode, regModeStarted, audio,
                                    log, relay, http, last, hist>>

\* loop() reads the card uid and handles it up to its first write to
\* RELAY_PIN, or to its end when it makes none
ScanSteps(uid) ==
    /\ Running
    /\ busy = <<>>
    /\ steps < MaxPasses
    /\ steps' = steps + 1
    /\ Advance(Pending(loopCard(uid), [kind |-> "scan", uid |-> uid], 0,
                       IF Toggles(uid)
                       THEN <<[uid |-> uid, before |-> Members(eeprom)]>>
                       ELSE <<>>))
    /\ UNCHANGED added

\* server.handleClient() serves a known route up to its first write to
\* RELAY_PIN, or to its end when it makes none
WebSteps(name) ==
    /\ Running
    /\ busy = <<>>
    /\ steps < MaxPasses
    /\ steps' = steps + 1
    /\ name \in DOMAIN Routes
    /\ Advance(Pending(Ret(handleCommand(Eff(eeprom, flash), Routes[name][1],
                                         Routes[name][2]),
                           regMode, regModeStarted),
                       [kind |-> "web", name |-> name], 200, hist))
    /\ UNCHANGED added

\* delay() of the handler that holds the relay ends
RelayHold ==
    /\ busy # <<>>
    /\ Advance(busy)
    /\ UNCHANGED <<added, steps>>

NextRelay ==
    \/ \E uid \in Cards : ScanSteps(uid)
    \/ \E name \in WebInputs : WebSteps(name)
    \/ RelayHold
    \/ \E d \in IdleSteps : LoopIdle(d)

SpecRelay == Init /\ [][NextRelay]_vars

\* ------------------------------------------------------------------ claims
\* the outcome that each Serial line of a scan reports
ScanOutcome ==
    [line \in {"No master set. This card becomes MASTER.",
               "MASTER -> Registration mode ON",
               "MASTER -> Registration mode CANCELLED",
               "Card ADDED: ", "Card REMOVED: ",
               "Authorized -> opening gate", "Unauthorized card"} |->
        CASE line = "No master set. This card becomes MASTER." -> "BecameMaster"
          [] line = "MASTER -> Registration mode ON" -> "RegistrationArmed"
          [] line = "MASTER -> Registration mode CANCELLED" -> "RegistrationCancelled"
          [] line = "Card ADDED: " -> "MemberAdded"
          [] line = "Card REMOVED: " -> "MemberRemoved"
          [] line = "Authorized -> opening gate" -> "AccessGranted"
          [] line = "Unauthorized card" -> "AccessDenied"]

\* the outcomes of the last handler
Outcomes == [i \in 1..Len(log) |-> ScanOutcome[log[i]]]

\* this step is a pass of loop() that read the card uid
ScanStep(uid) == steps' = steps + 1 /\ last' = [kind |-> "scan", uid |-> uid]

\* a master is stored: the bytes 0..3 are neither all 0x00 nor all 0xFF
MasterStored(e) == readMasterUID(e) \notin {UID_00, UID_FF}

\* the first count slots hold no identifier twice: they hold count
\* different identifiers
NoDuplicates(e) == Cardinality(Members(e)) = readCount(e)

\* C1: a scan of an authorized non-master card that is handled more than
\* 15000 ms after registration was armed is an access check (granted, relay
\* pulsed, registration Idle) and the card stays in the list.
C1_ExpiredScanIsAccessCheck ==
    [][\A uid \in Cards :
          (/\ ScanStep(uid)
           /\ regMode
           /\ now - regModeStarted > REG_MODE_TIMEOUT_MS
           /\ MasterStored(eeprom)
           /\ uid # readMasterUID(eeprom)
           /\ isAuthorized(eeprom, uid))
          => (/\ Outcomes' = <<"AccessGranted">>
              /\ relay' = 1
              /\ ~regMode'
              /\ isAuthorized(eeprom', uid))]_vars

\* C2: once a master is stored, no scan and no web command changes it.
C2_MasterImmutable ==
    [][MasterStored(eeprom) => readMasterUID(eeprom') = readMasterUID(eeprom)]_vars

\* C3: every scan that the loop handles emits exactly one outcome; at a full
\* list a new card scanned in registration mode is denied.
C3_ExactlyOneOutcome == last.kind = "scan" => Len(Outcomes) = 1

\* C4: the count never exceeds MAX_CARDS, and a scan that attempts an add at
\* count = MAX_CARDS leaves every EEPROM byte as it was.
C4_CountBounded ==
    /\ [](readCount(eeprom) \in 0..MAX_CARDS)
    /\ [][\A uid \in Cards :
             (/\ ScanStep(uid)
              /\ Toggles(uid)
              /\ ~isAuthorized(eeprom, uid)
              /\ readCount(eeprom) = MAX_CARDS)
             => eeprom' = eeprom]_vars

\* a new card was scanned in registration mode with the list at MAX_CARDS
C4_Witness ==
    /\ last.kind = "scan"
    /\ hist # <<>>
    /\ Cardinality(hist[Len(hist)].before) = MAX_CARDS
    /\ hist[Len(hist)].uid \notin hist[Len(hist)].before
    /\ readCount(eeprom) = MAX_CARDS

\* C5: the master is never a member of the authorized list.
C5_MasterNotMember == ~isAuthorized(eeprom, readMasterUID(eeprom))

\* the master was scanned while registration was active, after a card had
\* been registered in this run
C5_Witness ==
    /\ last.kind = "scan"
    /\ last.uid = readMasterUID(eeprom)
    /\ Outcomes = <<"RegistrationCancelled">>
    /\ CardA \in Members(eeprom)

\* C6: the first count entries of the list contain no identifier twice.
C6_NoDuplicates == NoDuplicates(eeprom)

\* a card that was in the list was scanned in registration mode, after
\* another card had been appended
C6_Witness ==
    /\ Len(hist) = 2
    /\ hist[1].uid # hist[2].uid
    /\ hist[1].uid \notin hist[1].before
    /\ hist[2].uid \in hist[2].before
    /\ Outcomes = <<"MemberRemoved">>

\* C7: after any adds and removeAts that respect capacity, isAuthorized holds
\* exactly of the identifiers added and not since removed, and the count is
\* their number.
C7_MembershipExact ==
    /\ \A uid \in StoreIds :
          isAuthorized(eeprom, uid) <=> uid \in added
    /\ readCount(eeprom) = Cardinality(added)

\* C8: with a master stored, a scan of the master flips registration (Idle
\* to Active with startedAt = now, Active to Idle), and a new non-master
\* card scanned while Active is authorized afterwards.
C8_MasterFlipsRegistration ==
    [][\A uid \in Cards :
          (ScanStep(uid) /\ MasterStored(eeprom))
          => /\ (uid = readMasterUID(eeprom) /\ ~regMode)
                => (/\ regMode'
                    /\ regModeStarted' = now
                    /\ Outcomes' = <<"RegistrationArmed">>)
             /\ (uid = readMasterUID(eeprom) /\ regMode)
                => (~regMode' /\ Outcomes' = <<"RegistrationCancelled">>)
             /\ (uid # readMasterUID(eeprom) /\ regMode
                    /\ ~isAuthorized(eeprom, uid))
                => isAuthorized(eeprom', uid)]_vars

\* C9: two scans in a row of one non-master card, both handled in
\* registration mode, leave the set of members as it was before the first.
C9_DoubleToggle ==
    (Len(hist) = 2 /\ hist[1].uid = hist[2].uid)
    => Members(eeprom) = hist[1].before

\* a member that is not in the last slot was scanned twice in a row in
\* registration mode
C9_Witness ==
    /\ Len(hist) = 2
    /\ hist[1].uid = hist[2].uid
    /\ hist[1].uid = Filler(1)
    /\ hist[1].uid \in hist[1].before
    /\ Cardinality(hist[1].before) >= MAX_CARDS - 1

\* the same at a full list, with a card that is not a member
C9_WitnessFull ==
    /\ Len(hist) = 2
    /\ hist[1].uid = hist[2].uid
    /\ hist[1].uid \notin hist[1].before
    /\ Cardinality(hist[1].before) = MAX_CARDS

\* C10: removeCardAtIndex(i) with i < n leaves n-1 entries: those before i in
\* place, those after i one slot down in the same order, slot n-1 all 0xFF.
C10_RemoveAtShifts ==
    [][\A idx \in StoreIdx :
          (/\ steps' = steps + 1
           /\ last' = [kind |-> "removeAt", idx |-> idx]
           /\ idx < readCount(eeprom))
          => LET n == readCount(eeprom)
             IN  /\ readCount(eeprom') = n - 1
                 /\ \A j \in 0..(idx - 1) :
                       ReadUID(eeprom', cardAddr(j)) = ReadUID(eeprom, cardAddr(j))
                 /\ \A j \in idx..(n - 2) :
                       ReadUID(eeprom', cardAddr(j))
                           = ReadUID(eeprom, cardAddr(j + 1))
                 /\ ReadUID(eeprom', cardAddr(n - 1)) = UID_FF
                 /\ \A a \in Addr :
                       ((a < cardAddr(idx) /\ a # 4) \/ a >= cardAddr(n))
                       => EEPROM_read(eeprom', a) = EEPROM_read(eeprom, a)]_vars

\* slot 0 of a list of three entries was removed
C10_Witness ==
    /\ last = [kind |-> "removeAt", idx |-> 0]
    /\ steps = 4
    /\ Entries(eeprom) = <<CardB, CardM>>
    /\ ReadUID(eeprom, cardAddr(2)) = UID_FF

\* C11: writeMaster(id2) called while a master id1 is stored leaves the
\* stored master equal to id1.
C11_WriteMasterRefuses ==
    [][\A uid \in StoreIds :
          (/\ steps' = steps + 1
           /\ last' = [kind |-> "writeMaster", uid |-> uid]
           /\ MasterStored(eeprom))
          => readMasterUID(eeprom') = readMasterUID(eeprom)]_vars

\* C12: setup() on a stored count above MAX_CARDS leaves the store empty
\* (master unset, count 0, no entries), in the buffer and in flash, and no
\* scan is handled before setup(); on a stored count of at most MAX_CARDS it
\* leaves master, count and entries as they were.
C12_StartupWipe ==
    [][/\ (~Running /\ Running')
          => IF readCount(flash) > MAX_CARDS
             THEN /\ ~MasterStored(eeprom') /\ ~MasterStored(flash')
                  /\ readCount(eeprom') = 0 /\ readCount(flash') = 0
                  /\ Members(eeprom') = {}
             ELSE /\ readMasterUID(eeprom') = readMasterUID(flash)
                  /\ readCount(eeprom') = readCount(flash)
                  /\ Entries(eeprom') = Entries(flash)
                  /\ flash' = flash
       /\ last'.kind \in {"scan", "web", "idle"} => Running]_vars

\* setup() found a count byte above MAX_CARDS when the device was first
\* switched on, and wiped the store
C12_Witness ==
    /\ last.kind = "boot"
    /\ last.before.kind = "cold"
    /\ log = <<"EEPROM initialized">>
    /\ eeprom = WipedEEPROM

\* setup() found a list of exactly MAX_CARDS cards
C12_WitnessKept ==
    /\ last.kind = "boot"
    /\ log = <<>>
    /\ readCount(eeprom) = MAX_CARDS
    /\ readMasterUID(eeprom) = CardM

\* C13: what add, removeAt and writeMaster stored by the time they returned
\* is what the store holds after a power loss or a reboot and the setup()
\* that follows it.
C13_Durable ==
    [][(Stopped /\ Running')
          => /\ readMasterUID(eeprom') = last.seen.master
             /\ Entries(eeprom') = last.seen.entries]_vars

\* power was lost right after a scan had added a card, and setup() has run
C13_Witness ==
    /\ last.kind = "boot"
    /\ last.before.kind = "off"
    /\ last.before.seen.after = <<"Card ADDED: ">>
    /\ readCount(eeprom) > 0
    /\ ReadUID(eeprom, cardAddr(readCount(eeprom) - 1)) \in Cards

\* the same after the first card became master
C13_WitnessMaster ==
    /\ last.kind = "boot"
    /\ last.before.kind = "off"
    /\ last.before.seen.after = <<"No master set. This card becomes MASTER.">>
    /\ readMasterUID(eeprom) = CardA

\* the same after a scan had removed a card
C13_WitnessRemoved ==
    /\ last.kind = "boot"
    /\ last.before.kind = "off"
    /\ last.before.seen.after = <<"Card REMOVED: ">>
    /\ Filler(1) \notin Members(eeprom)
    /\ readCount(eeprom) = MAX_CARDS - 2

\* the audio cue that the command vocabulary gives each name that has one
C14_Cues ==
    [customer |-> AUDIO_CUSTOMER, attendance |-> AUDIO_ATTENDANCE,
     admin1 |-> AUDIO_ADMIN_1, admin2 |-> AUDIO_ADMIN_2, admin3 |-> AUDIO_ADMIN_3,
     admin4 |-> AUDIO_ADMIN_4, admin5 |-> AUDIO_ADMIN_5, admin6 |-> AUDIO_ADMIN_6,
     boss |-> AUDIO_BOSS,
     admin1_clockin |-> AUDIO_ADMIN_1_CLOCKIN, admin2_clockin |-> AUDIO_ADMIN_2_CLOCKIN,
     admin3_clockin |-> AUDIO_ADMIN_3_CLOCKIN, admin4_clockin |-> AUDIO_ADMIN_4_CLOCKIN,
     admin1_clockout |-> AUDIO_ADMIN_1_CLOCKOUT,
     admin2_clockout |-> AUDIO_ADMIN_2_CLOCKOUT,
     admin3_clockout |-> AUDIO_ADMIN_3_CLOCKOUT,
     admin4_clockout |-> AUDIO_ADMIN_4_CLOCKOUT,
     failure |-> AUDIO_FAILURE, beep_ok |-> AUDIO_BEEP_OK,
     beep_fail |-> AUDIO_BEEP_FAIL, master |-> AUDIO_MASTER,
     register |-> AUDIO_REGISTER]

\* the names whose command pulses the relay, with a cue and without one
C14_RelayNames == {"admin1", "admin2", "admin3", "admin4", "admin5", "admin6", "boss"}
RelayOnlyNames ==
    {"admin1_relay", "admin2_relay", "admin3_relay", "admin4_relay",
     "admin5_relay", "admin6_relay", "boss_relay"}

\* a name of the vocabulary got its cue, once, and its relay pulse or none
C14_InVocabulary ==
    IF last.name \in DOMAIN C14_Cues
    THEN /\ audio = <<C14_Cues[last.name]>>
         /\ relay = (IF last.name \in C14_RelayNames THEN 1 ELSE 0)
         /\ http = 200
    ELSE relay = 1 /\ http = 200

C14_NotFound == http = 404 /\ audio = <<>> /\ relay = 0

\* C14: every name of the command vocabulary yields its own cue and its
\* relay trigger (admin1..admin6 and boss pulse the relay, the other names
\* with a cue do not), and every other name yields not-found with no cue and
\* no relay pulse.
C14_DispatchTable ==
    (last.kind = "web" /\ last.name # RootPath)
    => IF last.name \in DOMAIN C14_Cues \cup RelayOnlyNames
       THEN C14_InVocabulary
       ELSE C14_NotFound

\* C14 as amended: the same, but the name reboot answers success with no cue
\* and no relay pulse, and stops the device.
C14_DispatchTableButReboot ==
    (last.kind = "web" /\ last.name # RootPath)
    => IF last.name \in DOMAIN C14_Cues \cup RelayOnlyNames
       THEN C14_InVocabulary
       ELSE IF last.name = RebootPath
       THEN http = 200 /\ audio = <<>> /\ relay = 0 /\ Stopped
       ELSE C14_NotFound

\* admin3_clockin was received
C14_Witness ==
    /\ last = [kind |-> "web", name |-> "admin3_clockin"]
    /\ audio = <<AUDIO_ADMIN_3_CLOCKIN>>
    /\ relay = 0

\* zzz was received
C14_WitnessUnknown == last = [kind |-> "web", name |-> "zzz"] /\ http = 404

\* boss was received
C14_WitnessRelay ==
    last = [kind |-> "web", name |-> "boss"] /\ audio = <<AUDIO_BOSS>> /\ relay = 1

\* C15: the relay-only commands (adminN_relay, boss_relay) pulse the relay
\* and send no play command to the audio module.
C15_RelayOnlyNoAudio ==
    (last.kind = "web" /\ last.name \in RelayOnlyNames)
    => (relay = 1 /\ audio = <<>>)

\* C16: a scan pulses the relay only if a master is stored, the card is not
\* the master, registration is not active when the scan is handled and the
\* card is in the authorized list; it pulses it at most once.
C16_RelayOnlyOnAccess ==
    [][\A uid \in Cards :
          (ScanStep(uid) /\ relay' # 0)
          => (/\ relay' = 1
              /\ MasterStored(eeprom)
              /\ uid # readMasterUID(eeprom)
              /\ ~regMode
              /\ isAuthorized(eeprom, uid))]_vars

\* an authorized card was scanned with registration Idle and the relay was
\* pulsed
C16_Witness ==
    /\ last.kind = "scan"
    /\ relay = 1
    /\ log = <<"Authorized -> opening gate">>
    /\ isAuthorized(eeprom, last.uid)

\* an authorized card was scanned with registration active: no pulse
C16_WitnessActive ==
    /\ last.kind = "scan"
    /\ relay = 0
    /\ log = <<"Card REMOVED: ">>

\* C17: when the handling of a scan has ended, whichever branch handled it,
\* registration is active only if now - startedAt is at most
\* REG_MODE_TIMEOUT_MS.
C17_ActiveWithinTimeout ==
    last.kind = "scan"
    => (regMode => now - regModeStarted <= REG_MODE_TIMEOUT_MS)

\* a card was scanned in registration mode more than REG_MODE_TIMEOUT_MS
\* after arming, and registration is Idle at the end of that pass
C17_Witness ==
    /\ last.kind = "scan"
    /\ hist # <<>>
    /\ now - regModeStarted > REG_MODE_TIMEOUT_MS
    /\ ~regMode

\* a card was scanned in registration mode within the window, and
\* registration is still active
C17_WitnessActive ==
    /\ last.kind = "scan"
    /\ hist # <<>>
    /\ regMode
    /\ now - regModeStarted > 5000

\* the count and the entries of the authorized list
ListOf(e) == <<readCount(e), Entries(e)>>

\* C18: a scan changes the count or an entry of the authorized list only if
\* the card is not the master and registration is active; a scan of the
\* stored master (arming or cancelling) and a scan that ends granted or
\* denied leave master, count and every entry as they were.
C18_ListFrame ==
    [][\A uid \in Cards :
          ScanStep(uid)
          => /\ ListOf(eeprom') # ListOf(eeprom)
                => (regMode /\ uid # readMasterUID(eeprom))
             /\ (MasterStored(eeprom) /\ uid = readMasterUID(eeprom))
                => (eeprom' = eeprom /\ flash' = flash)
             /\ (~regMode /\ Outcomes' \in {<<"AccessGranted">>, <<"AccessDenied">>})
                => (eeprom' = eeprom /\ flash' = flash)]_vars

\* a card that is not in the list was scanned with registration Idle and
\* denied, with cards in the list
C18_Witness ==
    /\ last.kind = "scan"
    /\ log = <<"Unauthorized card">>
    /\ ~isAuthorized(eeprom, last.uid)
    /\ readCount(eeprom) = MAX_CARDS - 1

\* the master cancelled registration after a card had been added
C18_WitnessMaster ==
    /\ last.kind = "scan"
    /\ log = <<"MASTER -> Registration mode CANCELLED">>
    /\ readCount(eeprom) = MAX_CARDS

\* a scan in registration mode changed the list
C18_WitnessChange ==
    /\ last.kind = "scan"
    /\ hist # <<>>
    /\ Members(eeprom) # hist[Len(hist)].before

\* this step served a web request or was a pass of loop() with no card
C19_NoCardPass == steps' = steps + 1 /\ last'.kind \in {"web", "idle"}

\* active, startedAt, the master and the authorized list stay as they are
C19_Unchanged ==
    /\ regMode' = regMode
    /\ regModeStarted' = regModeStarted
    /\ readMasterUID(eeprom') = readMasterUID(eeprom)
    /\ ListOf(eeprom') = ListOf(eeprom)

\* C19: a web request (a command of the vocabulary, master and register
\* among them, or any other name) and a pass of loop() that reads no card
\* leave active, startedAt, the master and the authorized list unchanged.
C19_NoCardFrame == [][C19_NoCardPass => C19_Unchanged]_vars

\* C19 as amended: the same for every name but reboot; reboot leaves the
\* master and the authorized list unchanged and leaves registration Idle.
C19_NoCardFrameButReboot ==
    [][C19_NoCardPass
          => IF last'.kind = "web" /\ last'.name = RebootPath
             THEN /\ ~regMode'
                  /\ readMasterUID(eeprom') = readMasterUID(eeprom)
                  /\ ListOf(eeprom') = ListOf(eeprom)
             ELSE C19_Unchanged]_vars

\* the command master was served more than REG_MODE_TIMEOUT_MS after arming
\* and registration is still active
C19_Witness ==
    /\ last = [kind |-> "web", name |-> "master"]
    /\ regMode
    /\ now - regModeStarted > REG_MODE_TIMEOUT_MS

\* loop() passed with no card for more than REG_MODE_TIMEOUT_MS after arming
\* and registration is still active
C19_WitnessIdle ==
    /\ last.kind = "idle"
    /\ regMode
    /\ now - regModeStarted > REG_MODE_TIMEOUT_MS

\* C20: startedAt changes only when a scan of the master takes registration
\* from Idle to Active, and then to the time of that scan; a scan of another
\* card handled more than REG_MODE_TIMEOUT_MS after arming leaves
\* registration Idle, whatever was added or removed since arming.
C20_WindowNotRestarted ==
    [][/\ regModeStarted' # regModeStarted
          => \E uid \in Cards :
                /\ ScanStep(uid)
                /\ uid = readMasterUID(eeprom)
                /\ ~regMode /\ regMode'
                /\ regModeStarted' = now
       /\ \A uid \in Cards :
             (/\ ScanStep(uid)
              /\ uid # readMasterUID(eeprom)
              /\ regMode
              /\ now - regModeStarted > REG_MODE_TIMEOUT_MS)
             => ~regMode']_vars

\* registration was armed in the first pass, a card was toggled within the
\* window, and a second toggle handled after the window has left
\* registration Idle
C20_Witness ==
    /\ last.kind = "scan"
    /\ Len(hist) = 2
    /\ regModeStarted = SETUP_MS
    /\ now - regModeStarted > REG_MODE_TIMEOUT_MS
    /\ ~regMode

\* C21: loop() reports the stored master as unset (the scan ends
\* BecameMaster) exactly when its four bytes are all 0x00 or all 0xFF; a
\* stored master that mixes 0x00 and 0xFF bytes is a set master.
C21_UnsetExactlySentinel ==
    [][\A uid \in Cards :
          ScanStep(uid)
          => (Outcomes' = <<"BecameMaster">> <=> ~MasterStored(eeprom))]_vars

\* C22: after a power loss at any point inside addCard or removeCardAtIndex
\* and the setup() that follows, master, count and entries of the store are
\* those from before the operation or those the complete operation leaves,
\* in the buffer and in flash.
C22_LossIsAllOrNothing ==
    last.kind \in {"addLost", "removeAtLost"}
    => /\ StoreOf(eeprom) \in {last.pre, last.post}
       /\ StoreOf(flash) = StoreOf(eeprom)

\* the power failed inside the removal of slot 0 of a list of three entries
\* before the first commit: the list is as before
C22_Witness ==
    /\ last.kind = "removeAtLost"
    /\ last.at = 0
    /\ last.pre[2] = 3
    /\ last.post[2] = 2
    /\ last.post[3][1] = last.pre[3][2]
    /\ StoreOf(eeprom) = last.pre

\* the same after the first commit: the list is shifted and one shorter
C22_WitnessRemoved ==
    /\ last.kind = "removeAtLost"
    /\ last.at = 1
    /\ last.pre[2] = 3
    /\ StoreOf(eeprom) = last.post

\* the power failed inside addCard before and after the first commit
C22_WitnessAddBefore ==
    last.kind = "addLost" /\ last.at = 0 /\ StoreOf(eeprom) = last.pre
       /\ last.pre # last.post

C22_WitnessAddAfter ==
    last.kind = "addLost" /\ last.at = 1 /\ StoreOf(eeprom) = last.post
       /\ last.pre # last.post

\* C23: the relay is off whenever loop() polls for a web request or a card;
\* while it is energized no scan and no web request is taken up, no second
\* pulse starts, and the step that follows switches it off and ends the
\* handler that pulsed it.
C23_RelayBlocksLoop ==
    /\ [](busy = <<>> => ~pin)
    /\ [][pin => (steps' = steps /\ last' = busy.last /\ ~pin')]_vars
    /\ [][steps' # steps => (~pin /\ busy = <<>>)]_vars

\* the relay is energized by the scan of an authorized card, in a run that
\* has pulsed it before
C23_Witness ==
    /\ pin
    /\ busy # <<>>
    /\ busy.last.kind = "scan"
    /\ relay = 1

\* a web command has pulsed the relay and loop() polls again
C23_WitnessAfter ==
    /\ ~pin
    /\ busy = <<>>
    /\ last = [kind |-> "web", name |-> "admin1"]
    /\ relay = 1

====
